---- MODULE Spec2Model ----
(***************************************************************************)
(* Verification model of uefi-rs:                                          *)
(*   - uefi-services: the SYSTEM_TABLE singleton, init, system_table and   *)
(*     the panic handler (fault path);                                     *)
(*   - uefi-logger: OutputWriter::write_str (UCS-2 staging and flushing);  *)
(*   - uefi: Directory::read_entry / reset_entry_readout;                  *)
(*   - uefi-test-runner: the protocol lookups of the debug and pointer     *)
(*     tests.                                                              *)
(* Each component has its own specification over its own variables; the    *)
(* variables of the other components keep their initial values.            *)
(***************************************************************************)
EXTENDS Integers, Sequences, FiniteSets, TLC

\* Option::None of a table reference (table references are 1 .. NumTables)
None == 0

(***************************************************************************)
(* Bounds of the model.                                                    *)
(***************************************************************************)
NumTables == 2
MaxInits == 3
MaxCalls == 2
MaxTail == 2      \* free code points at the end of a write_str input
MaxRuns == 2      \* input paddings reach up to MaxRuns * BUF_SIZE units
MaxEntries == 2   \* entries of the directory
MaxEntrySize == 4 \* size in bytes of the largest directory entry record
MaxBufLen == 11   \* length of the longest buffer passed to read_entry
MaxAddr == 7      \* highest start address of a buffer passed to read_entry
NumHandles == 2   \* firmware handles that can carry protocols
CharWindow == 20      \* code points taken on each side of a conversion limit
NumNames == 2         \* file names a directory node can hold
MaxOps == 3           \* calls made on one node

VARIABLES
    \* ---- uefi-services ----
    SYSTEM_TABLE,    \* static mut SYSTEM_TABLE: None or a table reference
    LOGGER,          \* static mut LOGGER: None or the table whose stdout it writes to
    loggerSet,       \* number of successful log::set_logger calls
    maxLevel,        \* log::max_level(): "Off" or "Info"
    allocInits,      \* sequence of tables uefi_alloc::init was called with
    bootExited,      \* set of tables whose boot services have been exited
    pc,              \* control position of the application / panic handler
    ret,             \* references system_table() returned to the application, in order
    panicInfo,       \* PanicInfo of the fault being handled: [location, message]
    diag,            \* messages that reached the diagnostic sink, in order
    trace,           \* steps the panic handler has taken, in order
    resetArgs,       \* arguments of the reset call: [rt, status]
    loggerBuilt,     \* number of uefi_logger::Logger::new calls
    initCalls,       \* tables passed to init so far, in call order
    qemu,            \* cfg!(feature = "qemu") of this build
    lastOp,          \* name of the operation that ran last
    \* ---- uefi-logger: one OutputWriter::write_str call ----
    s,               \* the &str argument, as its sequence of code points
    pos,             \* index of the next code point the encoder reads
    buf,             \* the stack buffer [0u16; BUF_SIZE + 1] of the call, indexed from 0
    i,               \* the staging cursor
    runs,            \* output_string calls of this write_str call, in order
    encRes,          \* result of ucs2_encoder: "none", "Ok", "Conversion", "Protocol"
    wpc,             \* control position inside write_str
    wret,            \* value write_str returned: "none", "Ok" or "Err"
    hiStore,         \* highest index of buf written by this call, -1 if none
    \* ---- uefi: Directory over a firmware file node ----
    entries,         \* sizes of the directory's entry records, in firmware order
    cursor,          \* firmware position of the node: entries already read
    dres,            \* result of the last Directory call
    dbuf,            \* buffer of the last read_entry call: [addr, len]
    window,          \* buffer the last read_entry handed to File::read, or NoWindow
    got,             \* entries returned as Some since the last reset, in order
    prevPass,        \* the entries returned between the two last resets
    prevRequired,    \* size reported by the call before the last one when it
                     \* failed with BUFFER_TOO_SMALL, else 0
    dop,             \* name of the last Directory operation
    \* ---- uefi-test-runner: protocol lookups ----
    installed,       \* protocol interfaces installed in firmware: <<handle, guid>>
    found,           \* what the last find_protocol returned
    tlog,            \* log records of the last test function, by level
    tpanic,          \* the last test function panicked
    top,             \* name of the last operation on the protocol database
    \* ---- uefi: character conversions ----
    chr,             \* the char given to try_from, as its code point
    r8,              \* result of Char8::try_from(chr), or NoConv
    r16,             \* result of Char16::try_from(chr), or NoConv
    \* ---- uefi: a Directory and a File over equal firmware nodes ----
    fnode,           \* firmware node the application drives through a File
    dnode,           \* equal node driven through the Directory wrapping its File
    wrapped,         \* Directory::from_file has wrapped the File of dnode
    fout,            \* result of the last File call on fnode
    dout,            \* result of the last Directory call on dnode
    flog,            \* firmware calls made on fnode, in order
    dlog,            \* firmware calls made on dnode, in order
    vop              \* name of the last Directory operation on dnode

svcVars == <<SYSTEM_TABLE, LOGGER, loggerSet, maxLevel, allocInits, bootExited,
             pc, ret, panicInfo, diag, trace, resetArgs, loggerBuilt,
             initCalls, qemu, lastOp>>

Tables == 1 .. NumTables

\* Build configuration: cfg!(feature = "qemu")
QemuFeature == {TRUE, FALSE}

NoPanic == [location |-> FALSE, message |-> FALSE]

\* no reset call was made
NoReset == [rt |-> "none", status |-> "none"]

(***************************************************************************)
(* uefi-services/src/lib.rs                                                *)
(***************************************************************************)
SvcInit ==
    /\ SYSTEM_TABLE = None
    /\ LOGGER = None
    /\ loggerSet = 0
    /\ maxLevel = "Off"
    /\ allocInits = <<>>
    /\ bootExited = {}
    /\ pc = "app"
    /\ ret = <<>>
    /\ panicInfo = NoPanic
    /\ diag = <<>>
    /\ trace = <<>>
    /\ resetArgs = NoReset
    /\ loggerBuilt = 0
    /\ initCalls = <<>>
    /\ qemu \in QemuFeature
    /\ lastOp = "none"

\* Enters #[panic_handler] with the given PanicInfo; control leaves the caller.
EnterPanic(location, message) ==
    /\ pc' = "report"
    /\ panicInfo' = [location |-> location, message |-> message]

\* init without its guard against double initialization
NeverInitialized(cur) == FALSE

\* init: `if SYSTEM_TABLE.is_some() { return; }`
AlreadyInitialized(cur) == cur # None

\* system_table handing out whatever the static holds
ExpectAlways(cur) == TRUE

\* system_table: SYSTEM_TABLE.expect(...) succeeds on Some
ExpectSome(cur) == cur # None

\* init(st): first writer wins, then init_logger() and init_alloc()
init(st) ==
    /\ pc = "app"
    /\ Len(initCalls) < MaxInits
    /\ initCalls' = Append(initCalls, st)
    /\ lastOp' = "init"
    /\ IF AlreadyInitialized(SYSTEM_TABLE)
       THEN UNCHANGED <<SYSTEM_TABLE, LOGGER, loggerSet, maxLevel, allocInits,
                        pc, panicInfo, loggerBuilt>>
       ELSE /\ SYSTEM_TABLE' = st
            \* init_logger: LOGGER = Some(Logger::new(st.stdout()))
            /\ LOGGER' = st
            /\ loggerBuilt' = loggerBuilt + 1
            /\ IF loggerSet > 0
               THEN \* log::set_logger(logger).unwrap() fails
                    /\ EnterPanic(TRUE, TRUE)
                    /\ UNCHANGED <<loggerSet, maxLevel, allocInits>>
               ELSE /\ loggerSet' = loggerSet + 1
                    /\ maxLevel' = "Info"
                    \* init_alloc: uefi_alloc::init(st.boot)
                    /\ allocInits' = Append(allocInits, st)
                    /\ UNCHANGED <<pc, panicInfo>>
    /\ UNCHANGED <<bootExited, ret, diag, trace, resetArgs, qemu>>

\* system_table(): the application reads the singleton
system_table ==
    /\ pc = "app"
    /\ Len(ret) < MaxCalls
    /\ lastOp' = "system_table"
    /\ IF ExpectSome(SYSTEM_TABLE)
       THEN /\ ret' = Append(ret, SYSTEM_TABLE)
            /\ UNCHANGED <<pc, panicInfo>>
       ELSE /\ EnterPanic(TRUE, TRUE)
            /\ UNCHANGED ret
    /\ UNCHANGED <<SYSTEM_TABLE, LOGGER, loggerSet, maxLevel, allocInits,
                   bootExited, diag, trace, resetArgs, loggerBuilt,
                   initCalls, qemu>>

\* The application exits the boot services of a table it holds.
exit_boot_services(st) ==
    /\ pc = "app"
    /\ st \notin bootExited
    /\ bootExited' = bootExited \cup {st}
    /\ lastOp' = "exit_boot_services"
    /\ UNCHANGED <<SYSTEM_TABLE, LOGGER, loggerSet, maxLevel, allocInits,
                   pc, ret, panicInfo, diag, trace, resetArgs, loggerBuilt,
                   initCalls, qemu>>

\* A panic raised by application code, with or without location and message.
app_panic(location, message) ==
    /\ pc = "app"
    /\ EnterPanic(location, message)
    /\ lastOp' = "panic"
    /\ UNCHANGED <<SYSTEM_TABLE, LOGGER, loggerSet, maxLevel, allocInits,
                   bootExited, ret, diag, trace, resetArgs, loggerBuilt,
                   initCalls, qemu>>

\* #[alloc_error_handler] out_of_memory: panic!("Ran out of free memory ...")
out_of_memory ==
    /\ pc = "app"
    /\ EnterPanic(TRUE, TRUE)
    /\ lastOp' = "out_of_memory"
    /\ UNCHANGED <<SYSTEM_TABLE, LOGGER, loggerSet, maxLevel, allocInits,
                   bootExited, ret, diag, trace, resetArgs, loggerBuilt,
                   initCalls, qemu>>

\* a sink that takes records although no logger is installed
LogErrorUnfiltered(log, msg) == Append(log, msg)

\* error!(...): the record reaches the sink only when a logger is installed
\* and the Error level passes the maximum level.
LogError(log, msg) ==
    IF loggerSet > 0 /\ maxLevel = "Info" THEN Append(log, msg) ELSE log

\* panic_handler, lines 98-108: report location and message
panic_report ==
    /\ pc = "report"
    /\ diag' = IF panicInfo.location
               THEN IF panicInfo.message
                    THEN LogError(LogError(diag, "location"), "message")
                    ELSE LogError(diag, "location")
               ELSE diag
    /\ trace' = Append(trace, "report")
    /\ pc' = "hold"
    /\ lastOp' = "panic_report"
    /\ UNCHANGED <<SYSTEM_TABLE, LOGGER, loggerSet, maxLevel, allocInits,
                   bootExited, ret, panicInfo, resetArgs, loggerBuilt,
                   initCalls, qemu>>

\* panic_handler, lines 110-122: stall through the table, else busy-spin
panic_hold ==
    /\ pc = "hold"
    /\ trace' = IF SYSTEM_TABLE # None
                THEN Append(trace, "stall")
                ELSE Append(trace, "spin")
    /\ pc' = "qemu"
    /\ lastOp' = "panic_hold"
    /\ UNCHANGED <<SYSTEM_TABLE, LOGGER, loggerSet, maxLevel, allocInits,
                   bootExited, ret, panicInfo, diag, resetArgs, loggerBuilt,
                   initCalls, qemu>>

\* panic_handler, lines 124-131: signal the f4 exit port in qemu builds
panic_qemu ==
    /\ pc = "qemu"
    /\ trace' = IF qemu THEN Append(trace, "port") ELSE trace
    /\ pc' = "shutdown"
    /\ lastOp' = "panic_qemu"
    /\ UNCHANGED <<SYSTEM_TABLE, LOGGER, loggerSet, maxLevel, allocInits,
                   bootExited, ret, panicInfo, diag, resetArgs, loggerBuilt,
                   initCalls, qemu>>

\* a reset that reboots and reports success
ResetCallCold == [rt |-> "Cold", status |-> "Success"]

\* panic_handler, lines 136-137: reset(ResetType::Shutdown, Status::Aborted, None)
ResetCall == [rt |-> "Shutdown", status |-> "Aborted"]

\* panic_handler, lines 133-138: reset(Shutdown, Aborted, None) never returns
panic_reset ==
    /\ pc = "shutdown"
    /\ SYSTEM_TABLE # None
    /\ trace' = Append(trace, "reset")
    /\ resetArgs' = ResetCall
    /\ pc' = "reset"
    /\ lastOp' = "panic_reset"
    /\ UNCHANGED <<SYSTEM_TABLE, LOGGER, loggerSet, maxLevel, allocInits,
                   bootExited, ret, panicInfo, diag, loggerBuilt,
                   initCalls, qemu>>

\* a handler that gives up and returns to the faulting code
panic_halt_returns ==
    /\ pc = "shutdown"
    /\ SYSTEM_TABLE = None
    /\ diag' = LogError(diag, "noshutdown")
    /\ pc' = "app"
    /\ lastOp' = "panic_halt"
    /\ UNCHANGED <<SYSTEM_TABLE, LOGGER, loggerSet, maxLevel, allocInits,
                   bootExited, ret, panicInfo, trace, resetArgs, loggerBuilt,
                   initCalls, qemu>>

\* panic_handler, lines 140-148: no table, report and halt forever
panic_halt ==
    /\ pc = "shutdown"
    /\ SYSTEM_TABLE = None
    /\ diag' = LogError(diag, "noshutdown")
    /\ trace' = Append(trace, "hlt")
    /\ pc' = "halt"
    /\ lastOp' = "panic_halt"
    /\ UNCHANGED <<SYSTEM_TABLE, LOGGER, loggerSet, maxLevel, allocInits,
                   bootExited, ret, panicInfo, resetArgs, loggerBuilt,
                   initCalls, qemu>>

SvcNext ==
    \/ \E st \in Tables : init(st)
    \/ system_table
    \/ \E st \in Tables : exit_boot_services(st)
    \/ \E l \in BOOLEAN, m \in BOOLEAN : app_panic(l, m)
    \/ out_of_memory
    \/ panic_report
    \/ panic_hold
    \/ panic_qemu
    \/ panic_reset
    \/ panic_halt

(***************************************************************************)
(* uefi-logger/src/writer.rs and src/data_types/chars.rs                   *)
(***************************************************************************)
wrVars == <<s, pos, buf, i, runs, encRes, wpc, wret, hiStore>>

BUF_SIZE == 128
LF == 10
CR == 13
MaxChar16 == 65535

U16(n) == n % 65536

\* code points the end of a write_str input is made of: line feed, carriage
\* return, the last representable code point and the first one beyond
CodePoints == {LF, CR, MaxChar16, MaxChar16 + 1}

Pad(n) == [k \in 1 .. n |-> 97]

RECURSIVE Tails(_)
Tails(n) ==
    IF n = 0 THEN {<<>>}
    ELSE LET shorter == Tails(n - 1)
         IN shorter \cup {Append(t, c) : t \in {x \in shorter : Len(x) = n - 1},
                                         c \in CodePoints}

\* lengths of the run of letters an input starts with: none, or up to one
\* unit short of a multiple of the buffer size
PadLens == {0} \cup {m * BUF_SIZE - d : m \in 1 .. MaxRuns, d \in {0, 1}}

\* the inputs of write_str: a run of letters up to a buffer boundary, then
\* any code points
Inputs == {Pad(n) \o t : n \in PadLens, t \in Tails(MaxTail)}

WrInit ==
    /\ s = <<>>
    /\ pos = 1
    /\ buf = <<>>       \* the buffer is a local of write_str
    /\ i = 0
    /\ runs = <<>>
    /\ encRes = "none"
    /\ wpc = "idle"
    /\ wret = "none"
    /\ hiStore = -1

U8(n) == n % 256

MaxChar8 == 255

\* a conversion that only casts: code_point as u8
Char8TryFromCast(c) == [ok |-> TRUE, unit |-> U8(c)]

\* TryFrom<char> for Char8: Ok(Char8(code_point as u8)) iff code_point <= 0xff
Char8TryFrom(c) ==
    IF c <= MaxChar8 THEN [ok |-> TRUE, unit |-> U8(c)]
    ELSE [ok |-> FALSE, unit |-> 0]

\* TryFrom<char> for Char16: Ok(Char16(code_point as u16)) iff code_point <= 0xffff
Char16TryFrom(c) ==
    IF c <= MaxChar16 THEN [ok |-> TRUE, unit |-> U16(c)]
    ELSE [ok |-> FALSE, unit |-> 0]

\* the run handed to output_string: the units of b in front of the
\* terminator at index n
Run(b, n) == [k \in 1 .. n |-> b[k - 1]]

\* add_char flushing one unit early
AtCapacityEarly(n) == n = BUF_SIZE - 1

\* add_char flushing one unit late
AtCapacityLate(n) == n = BUF_SIZE + 1

\* add_char: `if i == BUF_SIZE`
AtCapacity(n) == n = BUF_SIZE

\* flush_buffer: buf[*i] = 0; *i = 0; output_string(buf.as_ptr())
\* fw is the outcome of the firmware call
\* a flush that hands the buffer over without the terminator
FlushedBufNoTerm(b, n) == b

FlushedBuf(b, n) == [b EXCEPT ![n] = 0]

\* the call recorded: the units in front of index n, the firmware's outcome
\* and the unit the buffer holds at index n, directly after the last staged one
FlushedRuns(b, n, fw) ==
    Append(runs, [units |-> Run(FlushedBuf(b, n), n), ok |-> fw,
                  term |-> FlushedBuf(b, n)[n]])

Max(a, b) == IF a >= b THEN a ELSE b

\* add_char(ch): stage one unit, flush at capacity; the value is the closure's
\* result, "Ok" or "Protocol" (Err(Status::ProtocolError))
add_char(ch, fw) ==
    LET staged == [buf EXCEPT ![i] = ch]
    IN IF AtCapacity(i + 1)
       THEN /\ buf' = FlushedBuf(staged, i + 1)
            /\ i' = 0
            /\ runs' = FlushedRuns(staged, i + 1, fw)
            /\ hiStore' = Max(hiStore, i + 1)
       ELSE /\ buf' = staged
            /\ i' = i + 1
            /\ UNCHANGED runs
            /\ hiStore' = Max(hiStore, i)

AddCharResult(fw) == IF AtCapacity(i + 1) /\ ~fw THEN "Protocol" ELSE "Ok"

\* outcomes of the firmware call a staging step can make
FwOutcomes == IF AtCapacity(i + 1) THEN BOOLEAN ELSE {TRUE}

\* line 67, `ucs2::ucs2_encoder(s, add_ch);`: the encoder's result is dropped,
\* write_str goes on to the final flush whatever it was
AfterEncoder(res) == "final"

\* ucs2_encoder moves on to the next code point, or returns Ok(len) at the end
EncoderAdvance ==
    /\ pos' = pos + 1
    /\ IF pos + 1 > Len(s)
       THEN encRes' = "Ok" /\ wpc' = AfterEncoder("Ok")
       ELSE encRes' = encRes /\ wpc' = "encode"

\* ucs2_encoder stops at the first error and returns it
EncoderFail(err) ==
    /\ encRes' = err
    /\ wpc' = AfterEncoder(err)
    /\ UNCHANGED pos

\* add_ch testing for the carriage return instead of the line feed
LineFeedIsCr(ch) == ch = CR

\* add_ch: `ch == '\n' as u16`
IsLineFeed(ch) == ch = LF

\* write_str entry: fresh buffer and cursor, then ucs2_encoder(s, add_ch)
write_str(input) ==
    /\ wpc \in {"idle", "done"}
    /\ s' = input
    /\ pos' = 1
    /\ buf' = [k \in 0 .. BUF_SIZE |-> 0]
    /\ i' = 0
    /\ runs' = <<>>
    /\ wret' = "none"
    /\ hiStore' = -1
    /\ IF input = <<>>
       THEN encRes' = "Ok" /\ wpc' = AfterEncoder("Ok")
       ELSE encRes' = "none" /\ wpc' = "encode"

\* one iteration of ucs2_encoder: convert the code point and call add_ch,
\* whose first step is add_char(ch)
encode_next ==
    /\ wpc = "encode"
    /\ pos <= Len(s)
    /\ UNCHANGED <<s, wret>>
    /\ LET conv == Char16TryFrom(s[pos])
       IN IF ~conv.ok
          THEN /\ EncoderFail("Conversion")
               /\ UNCHANGED <<buf, i, runs, hiStore>>
          ELSE \E fw \in FwOutcomes :
                 /\ add_char(conv.unit, fw)
                 /\ IF AddCharResult(fw) # "Ok"
                    THEN EncoderFail("Protocol")
                    ELSE IF IsLineFeed(conv.unit)
                         THEN /\ wpc' = "cr"
                              /\ UNCHANGED <<pos, encRes>>
                         ELSE EncoderAdvance

\* add_ch going on to the next code point without the carriage return
add_cr_skipped ==
    /\ wpc = "cr"
    /\ UNCHANGED <<s, wret, buf, i, runs, hiStore>>
    /\ EncoderAdvance

\* add_ch after a line feed: add_char('\r' as u16)
add_cr ==
    /\ wpc = "cr"
    /\ UNCHANGED <<s, wret>>
    /\ \E fw \in FwOutcomes :
         /\ add_char(CR, fw)
         /\ IF AddCharResult(fw) # "Ok"
            THEN EncoderFail("Protocol")
            ELSE EncoderAdvance

\* line 71: flush whatever is left; its result is write_str's result
final_flush ==
    /\ wpc = "final"
    /\ \E fw \in BOOLEAN :
         /\ buf' = FlushedBuf(buf, i)
         /\ i' = 0
         /\ runs' = FlushedRuns(buf, i, fw)
         /\ wret' = IF fw THEN "Ok" ELSE "Err"
    /\ hiStore' = Max(hiStore, i)
    /\ wpc' = "done"
    /\ UNCHANGED <<s, pos, encRes>>

WrNext ==
    \/ \E input \in Inputs : write_str(input)
    \/ encode_next
    \/ add_cr
    \/ final_flush

(***************************************************************************)
(* src/proto/media/file/dir.rs                                             *)
(***************************************************************************)
dirVars == <<entries, cursor, dres, dbuf, window, got, prevPass, prevRequired,
             dop>>

\* FileInfo::alignment(): the record starts with 64-bit fields
Alignment == 8

NoWindow == [addr |-> 0, len |-> 0, handed |-> FALSE]

EntrySizes == {MaxEntrySize - 1, MaxEntrySize}

RECURSIVE DirsOfLen(_)
DirsOfLen(n) ==
    IF n = 0 THEN {<<>>}
    ELSE {Append(d, sz) : d \in DirsOfLen(n - 1), sz \in EntrySizes}

\* the directories of the model: up to MaxEntries records
Directories == UNION {DirsOfLen(n) : n \in 0 .. MaxEntries}

DirInit ==
    /\ entries \in Directories
    /\ cursor = 0
    /\ dres = [kind |-> "none"]
    /\ dbuf = [addr |-> 0, len |-> 0]
    /\ window = NoWindow
    /\ got = <<>>
    /\ prevPass = <<>>
    /\ prevRequired = 0
    /\ dop = "none"

\* FileInfo::realign_storage: bytes skipped so that the window starts aligned
RealignPadding(addr) == (Alignment - (addr % Alignment)) % Alignment

\* File::read on a directory node with a window of cap bytes: one whole
\* entry, nothing at the end, or BUFFER_TOO_SMALL with the entry's size
FileRead(cap) ==
    IF cursor = Len(entries) THEN [status |-> "SUCCESS", size |-> 0]
    ELSE IF entries[cursor + 1] > cap
         THEN [status |-> "BUFFER_TOO_SMALL", size |-> entries[cursor + 1]]
         ELSE [status |-> "SUCCESS", size |-> entries[cursor + 1]]

\* FileInfo::realign_storage(buffer): the sub-slice from the first aligned
\* byte to the end of the buffer
RealignStorage(addr, len) ==
    [addr |-> addr + RealignPadding(addr), len |-> len - RealignPadding(addr)]

\* read_entry reading into the buffer as it was passed
ReadBufferUnaligned(addr, len) == [addr |-> addr, len |-> len]

\* read_entry, line 68: File::read gets the realigned buffer
ReadBuffer(addr, len) == RealignStorage(addr, len)

\* read_entry decoding an entry whatever the size read
EntryAlwaysSome(size, at) ==
    [kind |-> "Some", entry |-> cursor + 1, size |-> size, at |-> at]

\* read_entry, lines 71-77: `if size != 0 { Some(..) } else { None }`
EntryOfSize(size, at) ==
    IF size # 0
    THEN [kind |-> "Some", entry |-> cursor + 1, size |-> size, at |-> at]
    ELSE [kind |-> "None"]

\* read_entry dropping the size that comes with the error
ForwardErrorNoSize(r) == [kind |-> "Err", status |-> r.status, required |-> 0]

\* read_entry, line 71: map leaves the error and its payload as File::read
\* returned them
ForwardError(r) == [kind |-> "Err", status |-> r.status, required |-> r.size]

\* read_entry(buffer)
read_entry(addr, len) ==
    /\ dop' = "read_entry"
    /\ dbuf' = [addr |-> addr, len |-> len]
    /\ prevRequired' = IF dres.kind = "Err" THEN dres.required ELSE 0
    /\ UNCHANGED <<entries, prevPass>>
    /\ IF RealignPadding(addr) > len
       THEN \* &mut storage[padding..] is out of range: the slice index panics
            /\ dres' = [kind |-> "Panic"]
            /\ window' = NoWindow
            /\ UNCHANGED <<cursor, got>>
       ELSE LET w == ReadBuffer(addr, len)
                r == FileRead(w.len)
            IN /\ window' = [addr |-> w.addr, len |-> w.len, handed |-> TRUE]
               /\ IF r.status = "SUCCESS"
                  THEN /\ dres' = EntryOfSize(r.size, w.addr)
                       /\ cursor' = IF r.size # 0 THEN cursor + 1 ELSE cursor
                       /\ got' = IF dres'.kind = "Some"
                                 THEN Append(got, [entry |-> dres'.entry,
                                                   size |-> dres'.size])
                                 ELSE got
                  ELSE /\ dres' = ForwardError(r)
                       /\ UNCHANGED <<cursor, got>>

\* File::set_position(offset) on a directory node: 0 rewinds
SetPosition(offset) == IF offset = 0 THEN 0 ELSE cursor

\* reset_entry_readout: self.0.set_position(0)
reset_entry_readout ==
    /\ dop' = "reset_entry_readout"
    /\ cursor' = SetPosition(0)
    /\ prevRequired' = 0
    /\ dres' = [kind |-> "Ok"]
    /\ prevPass' = got
    /\ got' = <<>>
    /\ window' = NoWindow
    /\ UNCHANGED <<entries, dbuf>>

DirNext ==
    \/ \E addr \in 0 .. MaxAddr, len \in 0 .. MaxBufLen : read_entry(addr, len)
    \/ reset_entry_readout

(***************************************************************************)
(* uefi-test-runner/src/proto/debug.rs, console/pointer.rs                 *)
(***************************************************************************)
protoVars == <<installed, found, tlog, tpanic, top>>

Handles == 1 .. NumHandles

\* identifiers of the protocols drivers may provide
Guids == {"DebugSupport", "Pointer", "SerialIo"}

\* Option::None of find_protocol
NoInstance == [handle |-> 0, guid |-> "None"]

ProtoInit ==
    /\ installed = {}
    /\ found = NoInstance
    /\ tlog = <<>>
    /\ tpanic = FALSE
    /\ top = "none"

\* a driver installs or removes a protocol interface on a handle
install_protocol(h, g) ==
    /\ <<h, g>> \notin installed
    /\ installed' = installed \cup {<<h, g>>}
    /\ top' = "install_protocol"
    /\ UNCHANGED <<found, tlog, tpanic>>

uninstall_protocol(h, g) ==
    /\ <<h, g>> \in installed
    /\ installed' = installed \ {<<h, g>>}
    /\ top' = "uninstall_protocol"
    /\ UNCHANGED <<found, tlog, tpanic>>

\* BootServicesExt::find_protocol::<P>(): the results it can give for the
\* identifier g; absence when no handle carries g, else the interface of a
\* handle that does (the first one in firmware order)
FindProtocol(g) ==
    LET providers == {h \in Handles : <<h, g>> \in installed}
    IN IF providers = {} THEN {NoInstance}
       ELSE {[handle |-> h, guid |-> g] : h \in providers}

\* the lookup result unwrapped instead of matched
LookupOutcomeExpect(r) == IF r # NoInstance THEN "use" ELSE "panic"

\* `if let Some(p) = bt.find_protocol::<P>() { .. } else { warn!(..) }`
LookupOutcome(r) == IF r # NoInstance THEN "use" ELSE "warn"

\* debug.rs test(bt)
debug_test ==
    /\ top' = "debug_test"
    /\ \E r \in FindProtocol("DebugSupport") :
         /\ found' = r
         /\ tlog' = IF LookupOutcome(r) = "use" THEN <<"info", "info">>
                    ELSE IF LookupOutcome(r) = "warn" THEN <<"info", "warn">>
                    ELSE <<"info">>
         /\ tpanic' = (LookupOutcome(r) \notin {"use", "warn"})
    /\ UNCHANGED installed

\* pointer.rs test(bt); resetOk and state are the firmware's answers to
\* reset(false) and read_state()
pointer_test(resetOk, state) ==
    /\ top' = "pointer_test"
    /\ \E r \in FindProtocol("Pointer") :
         /\ found' = r
         /\ IF LookupOutcome(r) = "use"
            THEN IF ~resetOk \/ state = "error"
                 THEN \* expect_success panics
                      tlog' = <<"info">> /\ tpanic' = TRUE
                 ELSE tlog' = <<"info", "info">> /\ tpanic' = FALSE
            ELSE IF LookupOutcome(r) = "warn"
                 THEN tlog' = <<"info", "warn">> /\ tpanic' = FALSE
                 ELSE tlog' = <<"info">> /\ tpanic' = TRUE
    /\ UNCHANGED installed

ProtoNext ==
    \/ \E h \in Handles, g \in Guids : install_protocol(h, g)
    \/ \E h \in Handles, g \in Guids : uninstall_protocol(h, g)
    \/ debug_test
    \/ \E resetOk \in BOOLEAN, state \in {"changed", "unchanged", "error"} :
         pointer_test(resetOk, state)


----------------------------------------------------------------------------
\* Character conversions (src/data_types/chars.rs)

charVars == <<chr, r8, r16>>

\* the largest code point of a Rust char
MaxChar == 1114111

\* no conversion has been made
NoConv == [ok |-> FALSE, unit |-> 65536]

\* the chars converted: those around the two limits and at both ends of the
\* char range
Near(c) == {x \in (c - CharWindow) .. (c + CharWindow) : x >= 0 /\ x <= MaxChar}

Chars == Near(0) \cup Near(MaxChar8) \cup Near(MaxChar16) \cup Near(MaxChar)

CharInit ==
    /\ chr \in Chars
    /\ r8 = NoConv
    /\ r16 = NoConv

CharIdle == CharInit /\ chr = 0

\* Char8::try_from(value)
char8_try_from ==
    /\ r8 = NoConv
    /\ r8' = Char8TryFrom(chr)
    /\ UNCHANGED <<chr, r16>>

\* Char16::try_from(value)
char16_try_from ==
    /\ r16 = NoConv
    /\ r16' = Char16TryFrom(chr)
    /\ UNCHANGED <<chr, r8>>

CharNext == char8_try_from \/ char16_try_from

----------------------------------------------------------------------------
\* Directory as a view over File (src/proto/media/file/dir.rs)

viewVars == <<fnode, dnode, wrapped, fout, dout, flog, dlog, vop>>

Names == 1 .. NumNames

FileModes == {"Read", "ReadWrite", "CreateReadWrite"}

\* values a FileInfo record can carry
Infos == {"info_a", "info_b"}

NoResult == [kind |-> "none", status |-> "none", payload |-> <<>>]

Ok(payload) == [kind |-> "Ok", status |-> "Success", payload |-> payload]

Err(status, payload) == [kind |-> "Err", status |-> status, payload |-> payload]

Warn(status, payload) == [kind |-> "Warning", status |-> status, payload |-> payload]

\* the firmware nodes a File handle can be open on
Nodes ==
    [open : {TRUE}, exists : {TRUE}, isDir : BOOLEAN, protected : BOOLEAN,
     children : SUBSET Names, info : {"info_a"}, dirty : {FALSE},
     position : {0}]

\* File::open: one path segment relative to the node, resolved by firmware
FileOpen(n, name, mode) ==
    IF name \in n.children
    THEN [node |-> n, res |-> Ok(<<name>>)]
    ELSE IF mode # "CreateReadWrite"
    THEN [node |-> n, res |-> Err("NotFound", <<>>)]
    ELSE IF n.protected
    THEN [node |-> n, res |-> Err("WriteProtected", <<>>)]
    ELSE [node |-> [n EXCEPT !.children = @ \cup {name}, !.dirty = TRUE],
          res |-> Ok(<<name>>)]

\* File::delete: closes the handle; the removal itself may fail
FileDelete(n) ==
    IF n.protected
    THEN [node |-> [n EXCEPT !.open = FALSE],
          res |-> Warn("WarnDeleteFailure", <<>>)]
    ELSE [node |-> [n EXCEPT !.open = FALSE, !.exists = FALSE], res |-> Ok(<<>>)]

\* File::get_info: the record, or the size the buffer must have
FileGetInfo(n, len) ==
    IF len < MaxEntrySize
    THEN [node |-> n, res |-> Err("BufferTooSmall", <<MaxEntrySize>>)]
    ELSE [node |-> n, res |-> Ok(<<n.info>>)]

\* File::set_info
FileSetInfo(n, info) ==
    IF n.protected
    THEN [node |-> n, res |-> Err("WriteProtected", <<>>)]
    ELSE [node |-> [n EXCEPT !.info = info, !.dirty = TRUE], res |-> Ok(<<>>)]

\* File::flush: fw is the outcome of the device
FileFlush(n, fw) ==
    IF fw THEN [node |-> [n EXCEPT !.dirty = FALSE], res |-> Ok(<<>>)]
    ELSE [node |-> n, res |-> Err("DeviceError", <<>>)]

\* File::set_position
FileSetPosition(n, offset) ==
    [node |-> [n EXCEPT !.position = offset], res |-> Ok(<<>>)]

\* File::read on a directory node: one entry per call, size 0 at the end
FileReadNode(n) ==
    IF n.position < Cardinality(n.children)
    THEN [node |-> [n EXCEPT !.position = @ + 1], res |-> Ok(<<MaxEntrySize>>)]
    ELSE [node |-> n, res |-> Ok(<<0>>)]

\* Directory::open, lines 25-32: self.0.open(filename, open_mode, attributes)
DirectoryOpen(n, name, mode) == FileOpen(n, name, mode)

\* a delete that only closes the directory handle
DirectoryDeleteAsClose(n) ==
    [node |-> [n EXCEPT !.open = FALSE], res |-> Ok(<<>>)]

\* Directory::delete, lines 40-42: self.0.delete()
DirectoryDelete(n) == FileDelete(n)

\* Directory::get_info, lines 88-93: self.0.get_info::<Info>(buffer)
DirectoryGetInfo(n, len) == FileGetInfo(n, len)

\* Directory::set_info, lines 98-100: self.0.set_info(info)
DirectorySetInfo(n, info) == FileSetInfo(n, info)

\* Directory::flush, lines 105-107: self.0.flush()
DirectoryFlush(n, fw) == FileFlush(n, fw)

\* Directory::reset_entry_readout, lines 81-83: self.0.set_position(0)
DirectoryResetEntryReadout(n) == FileSetPosition(n, 0)

\* read_entry's map over the size File::read returned, lines 70-76
SomeIfNonZero(r) ==
    IF r.kind = "Ok"
    THEN Ok(IF r.payload[1] # 0 THEN <<"Some">> ELSE <<"None">>)
    ELSE r

\* Directory::read_entry on the node: self.0.read(buffer).map(...)
DirectoryReadEntry(n) ==
    LET r == FileReadNode(n) IN [node |-> r.node, res |-> SomeIfNonZero(r.res)]

ViewInit ==
    /\ fnode \in Nodes
    /\ dnode = fnode
    /\ wrapped = FALSE
    /\ fout = NoResult
    /\ dout = NoResult
    /\ flog = <<>>
    /\ dlog = <<>>
    /\ vop = "none"

ViewIdle ==
    /\ ViewInit
    /\ fnode = [open |-> TRUE, exists |-> TRUE, isDir |-> TRUE,
                protected |-> FALSE, children |-> {}, info |-> "info_a",
                dirty |-> FALSE, position |-> 0]

\* Directory::from_file, lines 18-20: Directory(file), whatever the node is
from_file ==
    /\ ~wrapped
    /\ wrapped' = TRUE
    /\ vop' = "from_file"
    /\ UNCHANGED <<fnode, dnode, fout, dout, flog, dlog>>

\* the same call made on the File of fnode (result f) and on the Directory
\* over dnode (result d); call names the firmware entry point reached
Both(name, call, f, d) ==
    /\ wrapped
    /\ fnode.open /\ dnode.open
    /\ Len(flog) < MaxOps
    /\ fnode' = f.node
    /\ fout' = f.res
    /\ flog' = Append(flog, call)
    /\ dnode' = d.node
    /\ dout' = d.res
    /\ dlog' = Append(dlog, call)
    /\ vop' = name
    /\ UNCHANGED wrapped

view_open(name, mode) ==
    Both("open", <<"open", name, mode>>,
         FileOpen(fnode, name, mode), DirectoryOpen(dnode, name, mode))

view_delete ==
    Both("delete", <<"delete">>, FileDelete(fnode), DirectoryDelete(dnode))

view_get_info(len) ==
    Both("get_info", <<"get_info", len>>,
         FileGetInfo(fnode, len), DirectoryGetInfo(dnode, len))

view_set_info(info) ==
    Both("set_info", <<"set_info", info>>,
         FileSetInfo(fnode, info), DirectorySetInfo(dnode, info))

view_flush(fw) ==
    Both("flush", <<"flush">>, FileFlush(fnode, fw), DirectoryFlush(dnode, fw))

view_reset_entry_readout ==
    Both("reset_entry_readout", <<"set_position", 0>>,
         FileSetPosition(fnode, 0), DirectoryResetEntryReadout(dnode))

view_read_entry ==
    Both("read_entry", <<"read">>, FileReadNode(fnode), DirectoryReadEntry(dnode))

ViewNext ==
    \/ from_file
    \/ \E name \in Names, mode \in FileModes : view_open(name, mode)
    \/ view_delete
    \/ \E len \in EntrySizes : view_get_info(len)
    \/ \E info \in Infos : view_set_info(info)
    \/ \E fw \in BOOLEAN : view_flush(fw)
    \/ view_reset_entry_readout
    \/ view_read_entry

(***************************************************************************)
(* Specifications                                                          *)
(***************************************************************************)
vars == <<svcVars, wrVars, dirVars, protoVars, charVars, viewVars>>

\* the state of uefi-services in the specifications of the other components
SvcIdle == SvcInit /\ qemu = FALSE

\* the state of the directory in the specifications of the other components
DirIdle == DirInit /\ entries = <<>>

Init == SvcInit /\ WrInit /\ DirIdle /\ ProtoInit /\ CharIdle /\ ViewIdle

Next == SvcNext /\ UNCHANGED <<wrVars, dirVars, protoVars, charVars, viewVars>>

Spec == Init /\ [][Next]_vars

\* the panic handler runs on the only thread of control and each of its steps
\* ends (the stall and the spin loop are bounded), so a step that is enabled
\* is taken
PanicFairness ==
    /\ WF_vars(panic_report /\ UNCHANGED <<wrVars, dirVars, protoVars, charVars, viewVars>>)
    /\ WF_vars(panic_hold /\ UNCHANGED <<wrVars, dirVars, protoVars, charVars, viewVars>>)
    /\ WF_vars(panic_qemu /\ UNCHANGED <<wrVars, dirVars, protoVars, charVars, viewVars>>)
    /\ WF_vars(panic_reset /\ UNCHANGED <<wrVars, dirVars, protoVars, charVars, viewVars>>)
    /\ WF_vars(panic_halt /\ UNCHANGED <<wrVars, dirVars, protoVars, charVars, viewVars>>)

SpecFair == Init /\ [][Next]_vars /\ PanicFairness

NextWriter == WrNext /\ UNCHANGED <<svcVars, dirVars, protoVars, charVars, viewVars>>

InitWriter == SvcIdle /\ WrInit /\ DirIdle /\ ProtoInit /\ CharIdle /\ ViewIdle

SpecWriter == InitWriter /\ [][NextWriter]_vars

NextDir == DirNext /\ UNCHANGED <<svcVars, wrVars, protoVars, charVars, viewVars>>

InitDir == SvcIdle /\ WrInit /\ DirInit /\ ProtoInit /\ CharIdle /\ ViewIdle

SpecDir == InitDir /\ [][NextDir]_vars

NextProto == ProtoNext /\ UNCHANGED <<svcVars, wrVars, dirVars, charVars, viewVars>>

InitProto == SvcIdle /\ WrInit /\ DirIdle /\ ProtoInit /\ CharIdle /\ ViewIdle

SpecProto == InitProto /\ [][NextProto]_vars

NextChars == CharNext /\ UNCHANGED <<svcVars, wrVars, dirVars, protoVars, viewVars>>

InitChars == SvcIdle /\ WrInit /\ DirIdle /\ ProtoInit /\ CharInit /\ ViewIdle

SpecChars == InitChars /\ [][NextChars]_vars

NextView ==
    ViewNext /\ UNCHANGED <<svcVars, wrVars, dirVars, protoVars, charVars>>

InitView ==
    SvcIdle /\ WrInit /\ DirIdle /\ ProtoInit /\ CharIdle /\ ViewInit

SpecView == InitView /\ [][NextView]_vars

(***************************************************************************)
(* Properties of the singleton (uefi-services)                             *)
(***************************************************************************)

\* C1: init is write-once.  After the first init(t1) the stored reference is
\* t1 in every later state, whatever tables later init calls pass; every
\* reference system_table() returns is t1; and an init call made while the
\* singleton is already set changes no global state.
InitWriteOnce ==
    /\ [](/\ (initCalls = <<>> => SYSTEM_TABLE = None)
          /\ (initCalls # <<>> => SYSTEM_TABLE = initCalls[1])
          /\ \A k \in DOMAIN ret : initCalls # <<>> /\ ret[k] = initCalls[1])
    /\ [][lastOp' = "init" /\ initCalls # <<>>
            => UNCHANGED <<SYSTEM_TABLE, LOGGER, loggerSet, maxLevel,
                           allocInits, bootExited, pc, ret, panicInfo,
                           diag, trace>>]_vars

\* C1 witness: a second init with a different table has run and system_table
\* was called after it
InitTwiceThenRead ==
    /\ Len(initCalls) >= 2
    /\ initCalls[2] # initCalls[1]
    /\ lastOp = "system_table"
    /\ ret # <<>>

\* C2: system_table() called while Uninitialized returns nothing to its
\* caller and enters the panic handler; called while Initialized it returns
\* the stored reference and control stays with the application.
SystemTableFatalBeforeInit ==
    [][lastOp' = "system_table"
         => IF SYSTEM_TABLE = None
            THEN ret' = ret /\ pc = "app" /\ pc' = "report"
            ELSE ret' = Append(ret, SYSTEM_TABLE) /\ pc' = "app"]_vars

\* C2 witness: the accessor was called before init and the panic handler runs
ReadBeforeInitPanics ==
    /\ lastOp = "system_table"
    /\ SYSTEM_TABLE = None
    /\ pc = "report"
    /\ ret = <<>>

(***************************************************************************)
(* Properties of OutputWriter::write_str (uefi-logger)                     *)
(***************************************************************************)
Representable(x) == \A k \in DOMAIN x : x[k] <= MaxChar16
LineFeeds(x) == Cardinality({k \in DOMAIN x : x[k] = LF})
AllFlushesOk == \A k \in DOMAIN runs : runs[k].ok
CeilDiv(a, b) == (a + b - 1) \div b

\* the units of all runs handed to output_string, in order
RECURSIVE ConcatRuns(_)
ConcatRuns(rs) ==
    IF rs = <<>> THEN <<>>
    ELSE ConcatRuns(SubSeq(rs, 1, Len(rs) - 1)) \o rs[Len(rs)].units

\* x with every line feed replaced by the pair lfPair
RECURSIVE ExpandLf(_, _)
ExpandLf(x, lfPair) ==
    IF Len(x) = 0 THEN <<>>
    ELSE IF Len(x) = 1 THEN (IF x[1] = LF THEN lfPair ELSE x)
    ELSE LET h == Len(x) \div 2
         IN ExpandLf(SubSeq(x, 1, h), lfPair)
              \o ExpandLf(SubSeq(x, h + 1, Len(x)), lfPair)

\* C3: for representable input and successful output calls, one write_str
\* call issues exactly ceil((staged units + synthesized carriage returns + 1
\* terminator) / BUF_SIZE) output_string calls.
FlushCount ==
    wpc = "done" /\ Representable(s) /\ AllFlushesOk
        => Len(runs) = CeilDiv(Len(s) + LineFeeds(s) + 1, BUF_SIZE)

\* C3 witness: a finished call with line feeds that needed capacity flushes
FlushCountSeveralRuns ==
    /\ wpc = "done" /\ Representable(s) /\ AllFlushesOk
    /\ LineFeeds(s) >= 1
    /\ Len(runs) >= 3

\* C4 as stated: the concatenated runs are the input with a carriage return
\* in front of every line feed.
RoundTripCrBeforeLf ==
    wpc = "done" /\ Representable(s) /\ AllFlushesOk
        => ConcatRuns(runs) = ExpandLf(s, <<CR, LF>>)

\* C4 amended: for representable input and successful output calls, the
\* concatenated runs are the input with a carriage return right after every
\* line feed, nothing else added, dropped or reordered.
RoundTripLfThenCr ==
    wpc = "done" /\ Representable(s) /\ AllFlushesOk
        => ConcatRuns(runs) = ExpandLf(s, <<LF, CR>>)

\* C4 witness: a finished call whose line feed and carriage return were
\* split over two runs
RoundTripAcrossRuns ==
    /\ wpc = "done" /\ Representable(s) /\ AllFlushesOk
    /\ Len(runs) >= 2
    /\ runs[1].units[BUF_SIZE] = LF
    /\ Len(runs[2].units) >= 1 /\ runs[2].units[1] = CR

\* C5: an input with a code point above 0xFFFF makes write_str fail and
\* issue no output_string call.
ConversionFailureNoWrite ==
    wpc = "done" /\ ~Representable(s) => wret = "Err" /\ runs = <<>>

\* C6: a failed output_string call is the last one of its write_str call,
\* and write_str then returns the failure.
FlushFailureAborts ==
    /\ \A k \in DOMAIN runs : ~runs[k].ok => k = Len(runs)
    /\ wpc = "done" /\ ~AllFlushesOk => wret = "Err"

(***************************************************************************)
(* Properties of Directory (uefi)                                          *)
(***************************************************************************)
Min(a, b) == IF a < b THEN a ELSE b

\* the records of the directory, in firmware order
AllEntries == [k \in 1 .. Len(entries) |-> [entry |-> k, size |-> entries[k]]]

WindowIsAlignedTail ==
    LET k == dbuf.addr % Alignment
    IN /\ window.handed
       /\ window.addr % Alignment = 0
       /\ window.addr >= dbuf.addr
       /\ window.addr - dbuf.addr < Alignment
       /\ window.len = dbuf.len - ((Alignment - k) % Alignment)
       /\ window.len >= 0
       /\ window.addr + window.len <= dbuf.addr + dbuf.len

AbsentProtocolIsNone ==
    [][top' \in {"debug_test", "pointer_test"}
         => LET g == IF top' = "debug_test" THEN "DebugSupport" ELSE "Pointer"
            IN IF \A h \in Handles : <<h, g>> \notin installed
               THEN /\ found' = NoInstance
                    /\ ~tpanic'
                    /\ tlog' = <<"info", "warn">>
               ELSE /\ found' # NoInstance
                    /\ found'.guid = g
                    /\ <<found'.handle, g>> \in installed]_vars

\* C10 witness: protocols are installed, none of them is the one the debug
\* test asked for, and the test ended with its warning
LookupOfAbsentProtocol ==
    /\ top = "debug_test"
    /\ installed # {}
    /\ \A h \in Handles : <<h, "DebugSupport">> \notin installed
    /\ found = NoInstance
    /\ ~tpanic

----------------------------------------------------------------------------
\* Staging order and buffer

\* every unit staged so far by the current write_str call, in order: the
\* runs already handed to output_string and the units waiting in the buffer
Emitted == ConcatRuns(runs) \o Run(buf, i)

Count(x, u) == Cardinality({k \in DOMAIN x : x[k] = u})

\* C16 as stated: every line feed the writer stages is followed by a
\* carriage return as the very next emitted unit, never lost.
LfAlwaysFollowedByCr ==
    wpc = "done" =>
        LET e == Emitted
        IN \A k \in DOMAIN e : e[k] = LF => k < Len(e) /\ e[k + 1] = CR

\* the line feeds of x that have a successor are followed by a carriage return
CrAfterLf(x) == \A k \in 1 .. (Len(x) - 1) : x[k] = LF => x[k + 1] = CR

EndsWithLf(x) == x # <<>> /\ x[Len(x)] = LF

\* C16 amended: a line feed is staged first and the carriage return is the
\* very next unit staged, whatever carriage returns the input has; when the
\* line feed filled the buffer, the buffer is flushed and, if that flush
\* succeeded, the carriage return is the first unit of the next run; only a
\* failed flush of the line feed's run leaves it without carriage return.
\* With all flushes successful no carriage return is lost or duplicated.
LfThenCr ==
    /\ [](LET e == Emitted
          IN /\ CrAfterLf(e)
             /\ EndsWithLf(e) => wpc = "cr" \/ encRes = "Protocol"
             /\ wpc = "cr" => EndsWithLf(e) /\ encRes = "none"
             /\ wpc = "done" /\ AllFlushesOk /\ Representable(s) =>
                   /\ Count(e, LF) = Count(s, LF)
                   /\ Count(e, CR) = Count(s, CR) + Count(s, LF))
    /\ [][wpc = "cr" /\ wpc' # "cr" =>
            /\ Emitted' = Append(Emitted, CR)
            /\ i = 0 => i' = 1 /\ buf'[0] = CR /\ runs' = runs
                         /\ Len(runs[Len(runs)].units) = BUF_SIZE]_vars

\* C16 witness: an input with a carriage return of its own, whose line feed
\* filled the first run and whose synthesized carriage return opens the next
CrOpensNextRun ==
    /\ wpc = "done"
    /\ AllFlushesOk
    /\ Len(runs) = 2
    /\ Len(runs[1].units) = BUF_SIZE
    /\ runs[1].units[BUF_SIZE] = LF
    /\ runs[2].units = <<CR, CR>>

\* all flushes before the final one succeeded
PrecedingFlushesOk == \A k \in 1 .. (Len(runs) - 1) : runs[k].ok

\* C17: a write_str call whose earlier flushes succeeded makes exactly one
\* output_string call after the last input unit was staged, also for the
\* empty input and when the last unit has just caused a capacity flush (the
\* final run is then empty); every run handed over has a zero unit directly
\* after its last staged unit, and every run but the final one has exactly
\* BUF_SIZE units.
FinalFlush ==
    /\ [](\A k \in DOMAIN runs :
            /\ runs[k].term = 0
            /\ k < Len(runs) \/ wpc # "done" => Len(runs[k].units) = BUF_SIZE)
    /\ [](wpc = "final" /\ encRes = "Ok" => pos > Len(s) \/ s = <<>>)
    /\ [][wpc = "final" /\ wpc' # "final" =>
            /\ wpc' = "done"
            /\ Len(runs') = Len(runs) + 1
            /\ runs'[Len(runs')].units = Run(buf, i)]_vars
    /\ [][wpc = "done" /\ wpc' = "done" => runs' = runs]_vars
    /\ [](wpc = "done" /\ PrecedingFlushesOk /\ Representable(s) =>
            /\ Len(runs) = ((Len(s) + LineFeeds(s)) \div BUF_SIZE) + 1
            /\ Len(runs[Len(runs)].units) = (Len(s) + LineFeeds(s)) % BUF_SIZE)
    /\ [](wpc = "done" /\ s = <<>> => Len(runs) = 1 /\ runs[1].units = <<>>)

\* C17 witness: the last unit of the input filled the buffer, the capacity
\* flush succeeded and the final flush handed over an empty run
EmptyFinalRun ==
    /\ wpc = "done"
    /\ Len(s) = BUF_SIZE
    /\ Len(runs) = 2
    /\ runs[1].ok
    /\ Len(runs[1].units) = BUF_SIZE
    /\ runs[2] = [units |-> <<>>, ok |-> TRUE, term |-> 0]

\* the code units of the input and the carriage return add_ch synthesizes
UnitsOf(x) == {U16(x[k]) : k \in DOMAIN x} \cup {CR}

\* C19: the cursor stays within 0 .. BUF_SIZE and is below BUF_SIZE whenever a
\* unit is about to be staged; every store into the buffer, unit or
\* terminator, hits an index in 0 .. BUF_SIZE of its BUF_SIZE + 1 slots; every
\* write_str call starts with the cursor at 0 and an empty buffer, so its
\* runs hold only units of its own input.
StagingBounds ==
    /\ [](i >= 0 /\ i <= BUF_SIZE /\ hiStore >= -1 /\ hiStore <= BUF_SIZE)
    /\ [](wpc \in {"encode", "cr"} => i < BUF_SIZE)
    /\ [](wpc # "idle" => DOMAIN buf = 0 .. BUF_SIZE)
    /\ [][(wpc \in {"encode", "cr"}) /\ i' # i =>
            hiStore' >= i /\ i' \in {0, i + 1}]_vars
    /\ [][s' # s \/ (wpc \in {"idle", "done"} /\ wpc' # wpc) =>
            /\ i' = 0
            /\ runs' = <<>>
            /\ hiStore' = -1
            /\ \A k \in DOMAIN buf' : buf'[k] = 0]_vars
    /\ [](wpc = "done" =>
            LET e == ConcatRuns(runs)
                own == UnitsOf(s)
            IN \A k \in DOMAIN e : e[k] \in own)

\* C19 witness: a call has filled the buffer, the terminator went into the
\* last slot and the cursor is back at 0 with input left to stage
TerminatorInLastSlot ==
    /\ wpc = "encode"
    /\ i = 0
    /\ hiStore = BUF_SIZE
    /\ Len(runs) = 1
    /\ buf[BUF_SIZE] = 0
    /\ buf[BUF_SIZE - 1] # 0

----------------------------------------------------------------------------
\* The fault path

InHandler == pc \in {"report", "hold", "qemu", "shutdown", "reset", "halt"}

Steps(name) == Cardinality({k \in DOMAIN trace : trace[k] = name})

PastReport == pc \in {"hold", "qemu", "shutdown", "reset", "halt"}

\* C12 as stated: every fatal error has produced a diagnostic message by the
\* time the shutdown attempt or the halt loop is reached, in every singleton
\* state and with or without a source location.
FatalAlwaysReported == pc \in {"shutdown", "reset", "halt"} => diag # <<>>

\* C12 amended: a fatal error has produced a diagnostic message before the
\* shutdown attempt exactly when init had installed the logger and the fault
\* carries a source location (the message line is nested under the location);
\* the out-of-memory handler always panics with a location and a message.
FatalReportedWhenSinkAndLocation ==
    /\ [](PastReport /\ pc # "halt" =>
             diag = IF loggerSet > 0 /\ panicInfo.location
                    THEN IF panicInfo.message THEN <<"location", "message">>
                                              ELSE <<"location">>
                    ELSE <<>>)
    /\ [](pc = "halt" => diag = <<>>)
    /\ [](loggerSet > 0 <=> SYSTEM_TABLE # None)
    /\ [][lastOp' = "out_of_memory" /\ lastOp # "out_of_memory" =>
             panicInfo'.location /\ panicInfo'.message /\ pc' = "report"]_vars

\* C12 witness: a fault with location and message after init was reported in
\* two lines before reset was called
ReportedBeforeReset ==
    /\ pc = "reset"
    /\ diag = <<"location", "message">>
    /\ trace[1] = "report"

\* the steps of a handler that found a table, in the order of lines 98-138
TableOrder ==
    IF qemu THEN <<"report", "stall", "port", "reset">>
    ELSE <<"report", "stall", "reset">>

IsPrefix(x, y) == Len(x) <= Len(y) /\ x = SubSeq(y, 1, Len(x))

\* C14: with an initialized table the handler's steps occur in the order
\* report, stall, debug signal (qemu builds only), reset, each at most once,
\* and reset is called with the Shutdown type and the Aborted status.
FaultPathOrder ==
    /\ SYSTEM_TABLE # None => IsPrefix(trace, TableOrder)
    /\ SYSTEM_TABLE # None /\ pc = "reset" => trace = TableOrder
    /\ SYSTEM_TABLE # None /\ InHandler /\ pc # "reset" =>
          Len(trace) < Len(TableOrder)
    /\ resetArgs # NoReset <=> pc = "reset"
    /\ pc = "reset" => resetArgs = [rt |-> "Shutdown", status |-> "Aborted"]

\* C14 witness: a qemu build with a table has run all four steps
AllStepsThenReset ==
    /\ qemu
    /\ SYSTEM_TABLE # None
    /\ trace = <<"report", "stall", "port", "reset">>
    /\ resetArgs.rt = "Shutdown"

HoldUsesStallOnlyWhenAvailable ==
    pc \in {"qemu", "shutdown", "reset", "halt"} =>
        /\ Steps("stall") + Steps("spin") = 1
        /\ Steps("stall") = 1 <=>
              (SYSTEM_TABLE # None /\ SYSTEM_TABLE \notin bootExited)

----------------------------------------------------------------------------
\* Character conversions

\* C13: Char16::try_from(c) succeeds exactly when c <= 0xFFFF and
\* Char8::try_from(c) exactly when c <= 0xFF; on success the stored unit is
\* the code point itself, and otherwise the result is CharConversionError.
CharConversionRange ==
    /\ r16 # NoConv => /\ r16.ok <=> chr <= 65535
                       /\ r16.ok => r16.unit = chr
    /\ r8 # NoConv => /\ r8.ok <=> chr <= 255
                      /\ r8.ok => r8.unit = chr

\* C13 witness: a char just above the Latin-1 range was refused as Char8 and
\* taken unchanged as Char16
Latin1LimitCrossed ==
    /\ chr = 256
    /\ r8 # NoConv /\ ~r8.ok
    /\ r16 = [ok |-> TRUE, unit |-> 256]

----------------------------------------------------------------------------
\* Directory as a view

====
